---- MODULE Spec2Model ----
(***************************************************************************)
(* Model of pulp_file/app/tasks/synchronizing.py: the synchronize task and *)
(* its helpers fetch_manifest, fetch_content, find_delta, build_additions  *)
(* and build_removals.                                                     *)
(*                                                                         *)
(* Strings that the code takes apart (URLs, paths) are sequences of        *)
(* one-character strings.  A Key is a record [path, digest]; a manifest is *)
(* the sequence of entries that Manifest.read() yields.  A repository is   *)
(* the sequence of the content key sets of its sealed versions; version    *)
(* number 0 stands for "no version" (None).                                *)
(***************************************************************************)
EXTENDS Integers, Sequences, FiniteSets, TLC

VARIABLES versions, sync, fd, ba, br

vars == <<versions, sync, fd, ba, br>>

----------------------------------------------------------------------------
(* Bounds of the model. *)

MaxManifestLen == 2
NumDigests == 2

Syncs == {"s1", "s2"}
Digests == 1..NumDigests
Paths == {<<"a">>, <<"b">>}
Sizes == {1}

Range(f) == {f[i] : i \in DOMAIN f}

SeqsUpTo(S, n) == UNION {[1..m -> S] : m \in 0..n}

----------------------------------------------------------------------------
(* Key = namedtuple('Key', ('path', 'digest')) *)
Key(path, digest) == [path |-> path, digest |-> digest]

(* Delta = namedtuple('Delta', ('additions', 'removals')) *)
Delta(additions, removals) == [additions |-> additions, removals |-> removals]

AllKeys == {Key(p, d) : p \in Paths, d \in Digests}

(* The keys of the main model: file a in every digest, file b in one. *)
Keys == {k \in AllKeys : k.path = <<"a">> \/ k.digest = 1}

(* The entries a manifest of the main model may list. *)
Entries == {e \in [path : Paths, digest : Digests, size : Sizes] :
               Key(e.path, e.digest) \in Keys}

Manifests == SeqsUpTo(Entries, MaxManifestLen)

----------------------------------------------------------------------------
(* String helpers: str.find, str.rfind, str.startswith, str.rstrip over    *)
(* sequences of one-character strings.  Positions are 1-based, 0 = absent. *)

Find(s, c, start) ==
    LET hits == {i \in start..Len(s) : s[i] = c}
    IN  IF hits = {} THEN 0 ELSE CHOOSE i \in hits : \A j \in hits : i <= j

FindAny(s, cs, start) ==
    LET hits == {i \in start..Len(s) : s[i] \in cs}
    IN  IF hits = {} THEN 0 ELSE CHOOSE i \in hits : \A j \in hits : i <= j

RFind(s, c) ==
    LET hits == {i \in 1..Len(s) : s[i] = c}
    IN  IF hits = {} THEN 0 ELSE CHOOSE i \in hits : \A j \in hits : i >= j

StartsWith(s, prefix) ==
    /\ Len(prefix) <= Len(s)
    /\ SubSeq(s, 1, Len(prefix)) = prefix

(* s.rstrip(c) *)
RStrip(s, c) ==
    LET keep == {i \in 1..Len(s) : s[i] # c}
    IN  IF keep = {} THEN <<>>
        ELSE SubSeq(s, 1, CHOOSE i \in keep : \A j \in keep : i >= j)

Tail_(s, from) == SubSeq(s, from, Len(s))

----------------------------------------------------------------------------
(* urllib.parse.urlparse / urlunparse, as called at lines 168 and 159.     *)

Letters == {"a", "b", "c", "d", "e", "f", "g", "h", "i", "j", "k", "l", "m",
            "n", "o", "p", "q", "r", "s", "t", "u", "v", "w", "x", "y", "z"}
DigitChars == {"0", "1", "2", "3", "4", "5", "6", "7", "8", "9"}
SchemeChars == Letters \cup DigitChars \cup {"+", "-", "."}

HTTP == <<"h", "t", "t", "p">>
HTTPS == <<"h", "t", "t", "p", "s">>
FTP == <<"f", "t", "p">>
(* The members of urllib's uses_netloc and uses_params the model can meet. *)
UsesNetloc == {HTTP, HTTPS, FTP}
UsesParams == {HTTP, HTTPS, FTP}

(* urlsplit's scheme rule: the text before the first ':' is the scheme when *)
(* it is made of scheme characters and what follows is not a port number.  *)
SplitScheme(url) ==
    LET i == Find(url, ":", 1)
        rest == Tail_(url, i + 1)
    IN  IF /\ i > 1
           /\ \A k \in 1..(i - 1) : url[k] \in SchemeChars
           /\ (SubSeq(url, 1, i - 1) = HTTP
               \/ rest = <<>>
               \/ \E k \in 1..Len(rest) : rest[k] \notin DigitChars)
        THEN [scheme |-> SubSeq(url, 1, i - 1), rest |-> rest]
        ELSE [scheme |-> <<>>, rest |-> url]

(* _splitnetloc(url, 2) when the text starts with '//'. *)
SplitNetloc(url) ==
    IF StartsWith(url, <<"/", "/">>)
    THEN LET d == FindAny(url, {"/", "?", "#"}, 3)
             delim == IF d = 0 THEN Len(url) + 1 ELSE d
         IN  [netloc |-> SubSeq(url, 3, delim - 1), rest |-> Tail_(url, delim)]
    ELSE [netloc |-> <<>>, rest |-> url]

(* url.split(c, 1) *)
SplitFirst(url, c) ==
    LET i == Find(url, c, 1)
    IN  IF i = 0 THEN [head |-> url, tail |-> <<>>]
        ELSE [head |-> SubSeq(url, 1, i - 1), tail |-> Tail_(url, i + 1)]

(* _splitparams: the params of the last path segment. *)
SplitParams(scheme, path) ==
    LET slash == RFind(path, "/")
        i == Find(path, ";", slash + 1)
    IN  IF scheme \in UsesParams /\ i # 0
        THEN [path |-> SubSeq(path, 1, i - 1), params |-> Tail_(path, i + 1)]
        ELSE [path |-> path, params |-> <<>>]

urlparse(url) ==
    LET s == SplitScheme(url)
        n == SplitNetloc(s.rest)
        f == SplitFirst(n.rest, "#")
        q == SplitFirst(f.head, "?")
        p == SplitParams(s.scheme, q.head)
    IN  [scheme |-> s.scheme, netloc |-> n.netloc, path |-> p.path,
         params |-> p.params, query |-> q.tail, fragment |-> f.tail]

urlunparse(parts) ==
    LET u0 == IF parts.params # <<>> THEN parts.path \o <<";">> \o parts.params
              ELSE parts.path
        u1 == IF \/ parts.netloc # <<>>
                 \/ (/\ parts.scheme # <<>>
                     /\ parts.scheme \in UsesNetloc
                     /\ ~StartsWith(u0, <<"/", "/">>))
              THEN <<"/", "/">> \o parts.netloc
                     \o (IF u0 # <<>> /\ u0[1] # "/" THEN <<"/">> \o u0 ELSE u0)
              ELSE u0
        u2 == IF parts.scheme # <<>> THEN parts.scheme \o <<":">> \o u1 ELSE u1
        u3 == IF parts.query # <<>> THEN u2 \o <<"?">> \o parts.query ELSE u2
    IN  IF parts.fragment # <<>> THEN u3 \o <<"#">> \o parts.fragment ELSE u3

(* posixpath.dirname, as called at line 169. *)
dirname(p) ==
    LET i == RFind(p, "/")
        head == SubSeq(p, 1, i)
    IN  IF head # <<>> /\ (\E k \in 1..Len(head) : head[k] # "/")
        THEN RStrip(head, "/")
        ELSE head

(* Joining by plain concatenation, without the separator. *)
join_concat(a, b) == a \o b

(* posixpath.join(a, b), as called at line 158. *)
join(a, b) ==
    IF b # <<>> /\ b[1] = "/" THEN b
    ELSE IF a = <<>> \/ a[Len(a)] = "/" THEN a \o b
    ELSE a \o <<"/">> \o b

----------------------------------------------------------------------------
(* The helpers of synchronize.                                             *)

(* The feed_url values an importer of the main model may hold: unset, or   *)
(* http://n/r/M.                                                           *)
FeedUrl == <<"h", "t", "t", "p", ":", "/", "/", "n", "/", "r", "/", "M">>
FeedUrls == {<<>>, FeedUrl}

(* RepositoryVersion.content of version number v of the repository. *)
VersionContent(v) == IF v = 0 THEN {} ELSE versions[v]

(* RepositoryVersion.latest(repository): the number of the last sealed     *)
(* version, 0 (None) when the repository has none.                         *)
latest == Len(versions)

(* fetch_content reading the latest version when it is given no base. *)
fetch_content_latest(base_version) ==
    IF base_version # 0
    THEN {Key(file.path, file.digest) : file \in VersionContent(base_version)}
    ELSE IF latest # 0
         THEN {Key(file.path, file.digest) : file \in VersionContent(latest)}
         ELSE {}

(* fetch_content(base_version): the keys of the FileContent of the base    *)
(* version, the empty set when there is no base version.                   *)
fetch_content(base_version) ==
    IF base_version # 0
    THEN {Key(file.path, file.digest) : file \in VersionContent(base_version)}
    ELSE {}

(* The keys of the entries that manifest.read() yields. *)
remote_content(manifest) ==
    {Key(manifest[i].path, manifest[i].digest) : i \in DOMAIN manifest}

(* find_delta without the subtraction of the local keys at line 133. *)
find_delta_no_subtraction(manifest, content, mirror) ==
    Delta(remote_content(manifest),
          IF mirror THEN content \ remote_content(manifest) ELSE {})

(* find_delta without the test of mirror at line 134. *)
find_delta_always_mirror(manifest, content, mirror) ==
    Delta(remote_content(manifest) \ content, content \ remote_content(manifest))

(* find_delta comparing paths where the code compares (path, digest). *)
find_delta_by_path(manifest, content, mirror) ==
    LET remote == remote_content(manifest)
    IN  Delta({k \in remote : \A l \in content : l.path # k.path},
              IF mirror THEN {l \in content : \A k \in remote : k.path # l.path}
              ELSE {})

find_delta(manifest, content, mirror) ==
    LET additions == remote_content(manifest) \ content
        removals == IF mirror THEN content \ remote_content(manifest) ELSE {}
    IN  Delta(additions, removals)

(* The default of find_delta's mirror parameter; synchronize passes none. *)
DefaultMirror == TRUE

(* One pass of the loop body of build_additions.generate (lines 155-167):  *)
(* the PendingContent for an entry, with its one PendingArtifact.          *)
PendingContent(feed_url, entry) ==
    LET parsed_url == urlparse(feed_url)
        root_dir == dirname(parsed_url.path)
        path == join(root_dir, entry.path)
        url == urlunparse([parsed_url EXCEPT !.path = path])
    IN  [path |-> entry.path, digest |-> entry.digest,
         size |-> entry.size, url |-> url, relative_path |-> entry.path]

(* build_additions.generate resumed with the manifest read up to pos: the  *)
(* index of the next entry whose key is an addition, 0 when the manifest   *)
(* is exhausted.                                                           *)
NextAddition(manifest, additions, pos) ==
    LET hits == {i \in (pos + 1)..Len(manifest) :
                    Key(manifest[i].path, manifest[i].digest) \in additions}
    IN  IF hits = {} THEN 0 ELSE CHOOSE i \in hits : \A j \in hits : i <= j

(* The size of BatchIterator's batches, scaled down for the model. *)
BatchSize == 2

(* The batches BatchIterator may take next from the keys not yet taken:    *)
(* BatchSize of them, or all that is left (a set has no fixed order).      *)
NextBatches(todo) ==
    {B \in SUBSET todo :
        Cardinality(B) = IF Cardinality(todo) < BatchSize
                         THEN Cardinality(todo) ELSE BatchSize}

(* The lookup of a batch matching on the path alone. *)
BatchLookup_ByPath(base_version, batch) ==
    {file \in VersionContent(base_version) :
        \E key \in batch : file.path = key.path}

(* base_version.content.filter(q): the records of the base version whose   *)
(* (path, digest) matches any key of the batch (lines 186-190).            *)
BatchLookup(base_version, batch) ==
    {file \in VersionContent(base_version) :
        \E key \in batch : file.path = key.path /\ file.digest = key.digest}

----------------------------------------------------------------------------
(* The synchronize task.  sync[s] is the frame of invocation s: pc names   *)
(* the call the invocation makes next.                                     *)

InBlock == {"fetch_manifest", "fetch_content", "find_delta", "build", "apply"}

NewSync ==
    [pc |-> "start", feed_url |-> <<>>, base_version |-> 0, io |-> {},
     error |-> "none", new_version |-> 0, version_state |-> "none",
     new_content |-> {}, manifest |-> <<>>, content |-> {},
     delta |-> Delta({}, {}), add_pos |-> 0, rem_todo |-> {},
     rem_batch |-> {}, failed |-> {}]

(* The idle values of the harnesses of find_delta, build_additions and     *)
(* build_removals.                                                         *)
NoFd == [pc |-> "off"]
NoBa == [pc |-> "off"]
NoBr == [pc |-> "off"]

Init ==
    /\ versions \in {<<>>} \cup {<<c>> : c \in SUBSET Keys}
    /\ sync = [s \in Syncs |-> NewSync]
    /\ fd = NoFd
    /\ ba = NoBa
    /\ br = NoBr

(* RepositoryVersion.create admits one provisional version of the          *)
(* repository at a time: the serialization point of concurrent syncs.      *)
CanCreate(s) == \A t \in Syncs : sync[t].version_state # "provisional"

(* The content a provisional version starts with: that of the version it   *)
(* succeeds.                                                               *)
ProvisionalContent == VersionContent(latest)

(* What a ChangeReport of the apply engine may say of its item. *)
ReportOutcomes == BOOLEAN

(* Load without the test of feed_url at lines 51-52. *)
Load_NoCheck(s) ==
    /\ sync[s].pc = "start"
    /\ \E feed_url \in FeedUrls :
          sync' = [sync EXCEPT ![s] =
                     [@ EXCEPT !.feed_url = feed_url,
                               !.base_version = latest,
                               !.io = @ \cup {"storage_read"},
                               !.pc = "create"]]
    /\ UNCHANGED <<versions, fd, ba, br>>

(* Lines 47-52: look up the importer and the repository, read the latest   *)
(* version, and raise ValueError when the importer has no feed_url.        *)
Load(s) ==
    /\ sync[s].pc = "start"
    /\ \E feed_url \in FeedUrls :
          sync' = [sync EXCEPT ![s] =
                     [@ EXCEPT !.feed_url = feed_url,
                               !.base_version = latest,
                               !.io = @ \cup {"storage_read"},
                               !.pc = IF feed_url = <<>> THEN "failed" ELSE "create",
                               !.error = IF feed_url = <<>> THEN "ValueError" ELSE "none"]]
    /\ UNCHANGED <<versions, fd, ba, br>>

(* Lines 54-55: enter the working directory and create the new version. *)
Create(s) ==
    /\ sync[s].pc = "create"
    /\ CanCreate(s)
    /\ sync' = [sync EXCEPT ![s] =
                  [@ EXCEPT !.io = @ \cup {"working_directory", "version_created"},
                            !.new_version = latest + 1,
                            !.version_state = "provisional",
                            !.new_content = ProvisionalContent,
                            !.pc = "fetch_manifest"]]
    /\ UNCHANGED <<versions, fd, ba, br>>

(* fetch_manifest passing straight on to find_delta. *)
FetchManifest_SkipSnapshot(s) ==
    /\ sync[s].pc = "fetch_manifest"
    /\ \E manifest \in Manifests :
          sync' = [sync EXCEPT ![s] =
                     [@ EXCEPT !.io = @ \cup {"download"},
                               !.manifest = manifest,
                               !.pc = "find_delta"]]
    /\ UNCHANGED <<versions, fd, ba, br>>

(* Line 62, fetch_manifest: the download succeeds and yields a manifest. *)
FetchManifest(s) ==
    /\ sync[s].pc = "fetch_manifest"
    /\ \E manifest \in Manifests :
          sync' = [sync EXCEPT ![s] =
                     [@ EXCEPT !.io = @ \cup {"download"},
                               !.manifest = manifest,
                               !.pc = "fetch_content"]]
    /\ UNCHANGED <<versions, fd, ba, br>>

(* Line 63. *)
FetchContent(s) ==
    /\ sync[s].pc = "fetch_content"
    /\ sync' = [sync EXCEPT ![s] =
                  [@ EXCEPT !.content = fetch_content(sync[s].base_version),
                            !.pc = "find_delta"]]
    /\ UNCHANGED <<versions, fd, ba, br>>

(* Line 64: find_delta(manifest, content), mirror left to its default. *)
FindDelta(s) ==
    /\ sync[s].pc = "find_delta"
    /\ sync' = [sync EXCEPT ![s] =
                  [@ EXCEPT !.delta = find_delta(sync[s].manifest, sync[s].content,
                                                 DefaultMirror),
                            !.pc = "build"]]
    /\ UNCHANGED <<versions, fd, ba, br>>

(* Lines 65-71: the two lazy plans and the ChangeSet; nothing is read yet. *)
Build(s) ==
    /\ sync[s].pc = "build"
    /\ sync' = [sync EXCEPT ![s] =
                  [@ EXCEPT !.add_pos = 0,
                            !.rem_todo = sync[s].delta.removals,
                            !.rem_batch = {},
                            !.pc = "apply"]]
    /\ UNCHANGED <<versions, fd, ba, br>>

(* Lines 72-81, one report of an addition: the engine draws the next item  *)
(* of build_additions.generate (the PendingContent of the next entry whose *)
(* key is an addition; its content has the entry's path and digest), adds  *)
(* that content to the new version unless the item fails, and yields a     *)
(* report that the loop only logs.                                         *)
ApplyAddition(s) ==
    /\ sync[s].pc = "apply"
    /\ NextAddition(sync[s].manifest, sync[s].delta.additions, sync[s].add_pos) # 0
    /\ \E ok \in ReportOutcomes :
          LET i == NextAddition(sync[s].manifest, sync[s].delta.additions,
                                sync[s].add_pos)
              entry == sync[s].manifest[i]
              file == Key(entry.path, entry.digest)
          IN  sync' = [sync EXCEPT ![s] =
                         [@ EXCEPT !.add_pos = i,
                                   !.new_content = IF ok THEN @ \cup {file} ELSE @,
                                   !.failed = IF ok THEN @
                                              ELSE @ \cup {[action |-> "ADDED",
                                                            key |-> file]}]]
    /\ UNCHANGED <<versions, fd, ba, br>>

(* A removal that also detaches the record from the base version. *)
ApplyRemoval_InPlace(s) ==
    /\ sync[s].pc = "apply"
    /\ NextAddition(sync[s].manifest, sync[s].delta.additions, sync[s].add_pos) = 0
    /\ \E batch \in (IF sync[s].rem_batch # {} THEN {{}}
                     ELSE NextBatches(sync[s].rem_todo) \ {{}}) :
          LET q_set == IF sync[s].rem_batch # {} THEN sync[s].rem_batch
                       ELSE BatchLookup(sync[s].base_version, batch)
          IN  \E file \in q_set, ok \in ReportOutcomes :
                 /\ sync' = [sync EXCEPT ![s] =
                               [@ EXCEPT !.rem_todo = @ \ batch,
                                         !.rem_batch = q_set \ {file},
                                         !.new_content = IF ok THEN @ \ {file} ELSE @,
                                         !.failed = IF ok THEN @
                                                    ELSE @ \cup {[action |-> "REMOVED",
                                                                  key |-> file]}]]
                 /\ versions' = [versions EXCEPT ![sync[s].base_version] =
                                                    IF ok THEN @ \ {file} ELSE @]
    /\ UNCHANGED <<fd, ba, br>>

(* Lines 72-81, one report of a removal: the engine draws the next record  *)
(* of build_removals.generate (which looks a new batch up when the last is *)
(* used up) and detaches it from the new version unless the item fails.    *)
ApplyRemoval(s) ==
    /\ sync[s].pc = "apply"
    /\ NextAddition(sync[s].manifest, sync[s].delta.additions, sync[s].add_pos) = 0
    /\ \E batch \in (IF sync[s].rem_batch # {} THEN {{}}
                     ELSE NextBatches(sync[s].rem_todo) \ {{}}) :
          LET q_set == IF sync[s].rem_batch # {} THEN sync[s].rem_batch
                       ELSE BatchLookup(sync[s].base_version, batch)
          IN  \E file \in q_set, ok \in ReportOutcomes :
                 sync' = [sync EXCEPT ![s] =
                            [@ EXCEPT !.rem_todo = @ \ batch,
                                      !.rem_batch = q_set \ {file},
                                      !.new_content = IF ok THEN @ \ {file} ELSE @,
                                      !.failed = IF ok THEN @
                                                 ELSE @ \cup {[action |-> "REMOVED",
                                                               key |-> file]}]]
    /\ UNCHANGED <<versions, fd, ba, br>>

(* Leaving the with blocks without sealing the version. *)
Commit_NoSeal(s) ==
    /\ sync[s].pc = "apply"
    /\ NextAddition(sync[s].manifest, sync[s].delta.additions, sync[s].add_pos) = 0
    /\ sync[s].rem_batch = {}
    /\ sync[s].rem_todo = {}
    /\ versions' = Append(versions, sync[s].new_content)
    /\ sync' = [sync EXCEPT ![s] = [@ EXCEPT !.pc = "done"]]
    /\ UNCHANGED <<fd, ba, br>>

(* Commit that seals no version when the delta is empty. *)
Commit_SkipEmpty(s) ==
    /\ sync[s].pc = "apply"
    /\ NextAddition(sync[s].manifest, sync[s].delta.additions, sync[s].add_pos) = 0
    /\ sync[s].rem_batch = {}
    /\ sync[s].rem_todo = {}
    /\ versions' = IF sync[s].delta = Delta({}, {}) THEN versions
                   ELSE Append(versions, sync[s].new_content)
    /\ sync' = [sync EXCEPT ![s] = [@ EXCEPT !.version_state = "sealed",
                                             !.pc = "done"]]
    /\ UNCHANGED <<fd, ba, br>>

(* Leaving the with blocks of lines 54-55 after the loop has drained the   *)
(* reports: the new version is sealed and becomes the latest.              *)
Commit(s) ==
    /\ sync[s].pc = "apply"
    /\ NextAddition(sync[s].manifest, sync[s].delta.additions, sync[s].add_pos) = 0
    /\ sync[s].rem_batch = {}
    /\ sync[s].rem_todo = {}
    /\ versions' = Append(versions, sync[s].new_content)
    /\ sync' = [sync EXCEPT ![s] = [@ EXCEPT !.version_state = "sealed",
                                             !.pc = "done"]]
    /\ UNCHANGED <<fd, ba, br>>

(* An exception that unwinds without discarding the provisional version. *)
Raise_KeepsVersion(s) ==
    /\ sync[s].pc \in InBlock
    /\ ~(sync[s].pc = "fetch_content" /\ sync[s].base_version = 0)
    /\ sync' = [sync EXCEPT ![s] = [NewSync EXCEPT !.feed_url = sync[s].feed_url,
                                                   !.base_version = sync[s].base_version,
                                                   !.io = sync[s].io,
                                                   !.new_version = sync[s].new_version,
                                                   !.version_state = sync[s].version_state,
                                                   !.failed = sync[s].failed,
                                                   !.error = sync[s].pc,
                                                   !.pc = "failed"]]
    /\ UNCHANGED <<versions, fd, ba, br>>

(* An exception leaves a call of lines 62-72 (a failed download, a storage *)
(* error, a failure of the engine itself): both with blocks unwind and the *)
(* provisional version is discarded.  fetch_content given no base version  *)
(* (line 108) calls nothing that could raise.                              *)
Raise(s) ==
    /\ sync[s].pc \in InBlock
    /\ ~(sync[s].pc = "fetch_content" /\ sync[s].base_version = 0)
    /\ sync' = [sync EXCEPT ![s] = [NewSync EXCEPT !.feed_url = sync[s].feed_url,
                                                   !.base_version = sync[s].base_version,
                                                   !.io = sync[s].io,
                                                   !.new_version = sync[s].new_version,
                                                   !.version_state = "discarded",
                                                   !.failed = sync[s].failed,
                                                   !.error = sync[s].pc,
                                                   !.pc = "failed"]]
    /\ UNCHANGED <<versions, fd, ba, br>>

Next ==
    \E s \in Syncs :
        \/ Load(s)
        \/ Create(s)
        \/ FetchManifest(s)
        \/ FetchContent(s)
        \/ FindDelta(s)
        \/ Build(s)
        \/ ApplyAddition(s)
        \/ ApplyRemoval(s)
        \/ Commit(s)
        \/ Raise(s)

Spec == Init /\ [][Next]_vars

(* The steps of one invocation.  A started task keeps running: each call   *)
(* it makes returns or raises, and RepositoryVersion.create is granted     *)
(* once no other sync holds a provisional version.                         *)
SyncStep(s) ==
    \/ Load(s)
    \/ Create(s)
    \/ FetchManifest(s)
    \/ FetchContent(s)
    \/ FindDelta(s)
    \/ Build(s)
    \/ ApplyAddition(s)
    \/ ApplyRemoval(s)
    \/ Commit(s)
    \/ Raise(s)

SpecFair == Spec /\ \A s \in Syncs : WF_vars(SyncStep(s))

----------------------------------------------------------------------------
(* find_delta on its own: every manifest, every local key set, both values *)
(* of mirror.                                                              *)

AllEntries == [path : Paths, digest : Digests, size : Sizes]

InitDelta ==
    /\ versions = <<>>
    /\ sync = [s \in Syncs |-> NewSync]
    /\ ba = NoBa
    /\ br = NoBr
    /\ fd \in [pc : {"call"},
               manifest : SeqsUpTo(AllEntries, MaxManifestLen),
               content : SUBSET AllKeys,
               mirror : BOOLEAN,
               result : {Delta({}, {})}]

CallFindDelta ==
    /\ fd.pc = "call"
    /\ fd' = [fd EXCEPT !.pc = "return",
                        !.result = find_delta(fd.manifest, fd.content, fd.mirror)]
    /\ UNCHANGED <<versions, sync, ba, br>>

NextDelta == CallFindDelta

SpecDelta == InitDelta /\ [][NextDelta]_vars

----------------------------------------------------------------------------
(* build_additions on its own: the planner is built for a feed_url, a      *)
(* manifest and the delta find_delta computed for it, then iterated.       *)

(* Relative paths a manifest entry may carry: a, s/a and ../a. *)
EntryPaths == {<<"a">>, <<"s", "/", "a">>, <<".", ".", "/", "a">>}

BaEntries == [path : EntryPaths, digest : {1}, size : Sizes]

(* http://n/r/M, http://n/r/M?q and http://n/M *)
BaFeedUrls == {FeedUrl, FeedUrl \o <<"?", "q">>,
               <<"h", "t", "t", "p", ":", "/", "/", "n", "/", "M">>}

InitAdditions ==
    /\ versions = <<>>
    /\ sync = [s \in Syncs |-> NewSync]
    /\ fd = NoFd
    /\ br = NoBr
    /\ \E feed_url \in BaFeedUrls, manifest \in SeqsUpTo(BaEntries, MaxManifestLen) :
          \E content \in SUBSET remote_content(manifest) :
             ba = [pc |-> "call", feed_url |-> feed_url, manifest |-> manifest,
                   delta |-> find_delta(manifest, content, DefaultMirror),
                   pos |-> 0, size |-> 0, emitted |-> <<>>]

(* Lines 168-170: the SizedIterable is returned; generate has not run. *)
BuildAdditions ==
    /\ ba.pc = "call"
    /\ ba' = [ba EXCEPT !.pc = "iterate",
                        !.size = Cardinality(ba.delta.additions)]
    /\ UNCHANGED <<versions, sync, fd, br>>

(* generate resumed: it reads on to the next entry whose key is an         *)
(* addition and yields its PendingContent (lines 154-167).                 *)
GenerateYield ==
    LET i == NextAddition(ba.manifest, ba.delta.additions, ba.pos)
    IN  /\ ba.pc = "iterate"
        /\ i # 0
        /\ ba' = [ba EXCEPT !.pos = i,
                            !.emitted = Append(@, PendingContent(ba.feed_url,
                                                                 ba.manifest[i]))]
        /\ UNCHANGED <<versions, sync, fd, br>>

(* generate resumed with no addition left in the manifest: it returns. *)
GenerateStop ==
    /\ ba.pc = "iterate"
    /\ NextAddition(ba.manifest, ba.delta.additions, ba.pos) = 0
    /\ ba' = [ba EXCEPT !.pc = "stop", !.pos = Len(ba.manifest)]
    /\ UNCHANGED <<versions, sync, fd, br>>

NextAdditions == BuildAdditions \/ GenerateYield \/ GenerateStop

SpecAdditions == InitAdditions /\ [][NextAdditions]_vars

----------------------------------------------------------------------------
(* build_removals on its own: the planner is built for a base version and  *)
(* the removals find_delta computed against its keys (a subset of them),   *)
(* then iterated.  yielded holds the records drawn so far, count how many  *)
(* times generate has yielded.                                             *)

InitRemovals ==
    /\ sync = [s \in Syncs |-> NewSync]
    /\ fd = NoFd
    /\ ba = NoBa
    /\ \E content \in SUBSET AllKeys :
          /\ versions = <<content>>
          /\ \E removals \in SUBSET fetch_content(1) :
                br = [pc |-> "call", base_version |-> 1,
                      delta |-> Delta({}, removals), size |-> 0,
                      todo |-> {}, batch |-> {}, yielded |-> {}, count |-> 0]

(* Line 193: the SizedIterable is returned; generate has not run. *)
BuildRemovals ==
    /\ br.pc = "call"
    /\ br' = [br EXCEPT !.pc = "iterate",
                        !.size = Cardinality(br.delta.removals),
                        !.todo = br.delta.removals]
    /\ UNCHANGED <<versions, sync, fd, ba>>

(* generate resumed (lines 185-192): it yields the next record of the      *)
(* current batch's query, taking and looking up the next batch first when  *)
(* the current one is used up.                                             *)
RemovalsYield ==
    /\ br.pc = "iterate"
    /\ \E batch \in (IF br.batch # {} THEN {{}}
                     ELSE NextBatches(br.todo) \ {{}}) :
          LET q_set == IF br.batch # {} THEN br.batch
                       ELSE BatchLookup(br.base_version, batch)
          IN  \E file \in q_set :
                 br' = [br EXCEPT !.todo = @ \ batch,
                                  !.batch = q_set \ {file},
                                  !.yielded = @ \cup {file},
                                  !.count = @ + 1]
    /\ UNCHANGED <<versions, sync, fd, ba>>

(* generate resumed with every batch used up: it returns. *)
RemovalsStop ==
    /\ br.pc = "iterate"
    /\ br.batch = {}
    /\ br.todo = {}
    /\ br' = [br EXCEPT !.pc = "stop"]
    /\ UNCHANGED <<versions, sync, fd, ba>>

NextRemovals == BuildRemovals \/ RemovalsYield \/ RemovalsStop

SpecRemovals == InitRemovals /\ [][NextRemovals]_vars

----------------------------------------------------------------------------
(* Properties of find_delta, checked under SpecDelta.                      *)

(* The remote keys of the harness, read off the manifest entry by entry. *)
FdRemote ==
    {k \in AllKeys : \E i \in DOMAIN fd.manifest :
        fd.manifest[i].path = k.path /\ fd.manifest[i].digest = k.digest}

(* C1: for every remote key set R and local key set L, find_delta returns  *)
(* additions = R - L, and removals = L - R when mirror is true and the     *)
(* empty set otherwise; additions and removals are disjoint.               *)
C1_DeltaCorrect ==
    fd.pc = "return" =>
        /\ fd.result.additions \subseteq AllKeys
        /\ fd.result.removals \subseteq AllKeys
        /\ \A k \in AllKeys :
              /\ k \in fd.result.additions <=> (k \in FdRemote /\ k \notin fd.content)
              /\ k \in fd.result.removals <=>
                    (fd.mirror /\ k \in fd.content /\ k \notin FdRemote)
        /\ fd.result.additions \cap fd.result.removals = {}

C1_Witness ==
    /\ fd.pc = "return"
    /\ fd.mirror
    /\ fd.result.additions # {}
    /\ fd.result.removals # {}
    /\ FdRemote \cap fd.content # {}

(* C7: with mirror = false the removal set is empty whatever the remote    *)
(* and the local keys are, so applying the delta to the local keys keeps   *)
(* every local key, also those the manifest does not list.                 *)
C7_NonMirrorNeverRemoves ==
    (fd.pc = "return" /\ ~fd.mirror) =>
        /\ fd.result.removals = {}
        /\ fd.content \subseteq (fd.content \ fd.result.removals) \cup fd.result.additions

C7_Witness ==
    /\ fd.pc = "return"
    /\ ~fd.mirror
    /\ fd.content \ FdRemote # {}
    /\ FdRemote \ fd.content # {}

(* The keys of a set that have path p. *)
OfPath(keys, p) == {k \in keys : k.path = p}

(* C9 as claimed: with mirror true, whenever the local keys hold (p, d1) and the manifest    *)
(* holds (p, d2), d2 # d1, and not (p, d1), the delta has exactly the      *)
(* addition (p, d2) and exactly the removal (p, d1) for path p.            *)
C9_AsClaimed ==
    (fd.pc = "return" /\ fd.mirror) =>
        \A p \in Paths, d1 \in Digests, d2 \in Digests :
            (/\ d1 # d2
             /\ Key(p, d1) \in fd.content
             /\ Key(p, d2) \in FdRemote
             /\ Key(p, d1) \notin FdRemote)
            => /\ OfPath(fd.result.additions, p) = {Key(p, d2)}
               /\ OfPath(fd.result.removals, p) = {Key(p, d1)}

(* C9 amended: with mirror true, when (p, d1) is the only local key of     *)
(* path p and (p, d2), d2 # d1, the only remote key of path p, the delta   *)
(* has exactly the addition (p, d2) and the removal (p, d1) for path p.    *)
C9_DigestChange ==
    (fd.pc = "return" /\ fd.mirror) =>
        \A p \in Paths, d1 \in Digests, d2 \in Digests :
            (/\ d1 # d2
             /\ OfPath(fd.content, p) = {Key(p, d1)}
             /\ OfPath(FdRemote, p) = {Key(p, d2)})
            => /\ OfPath(fd.result.additions, p) = {Key(p, d2)}
               /\ OfPath(fd.result.removals, p) = {Key(p, d1)}

C9_Witness ==
    /\ fd.pc = "return"
    /\ fd.mirror
    /\ \E p \in Paths, d1 \in Digests, d2 \in Digests :
          /\ d1 # d2
          /\ OfPath(fd.content, p) = {Key(p, d1)}
          /\ OfPath(FdRemote, p) = {Key(p, d2)}
          /\ Key(p, d2) \in fd.result.additions
          /\ Key(p, d1) \in fd.result.removals

----------------------------------------------------------------------------
(* Properties of build_additions, checked under SpecAdditions.             *)

RECURSIVE Split(_)
(* path.split('/') *)
Split(path) ==
    LET i == Find(path, "/", 1)
    IN  IF i = 0 THEN <<path>>
        ELSE <<SubSeq(path, 1, i - 1)>> \o Split(Tail_(path, i + 1))

RECURSIVE Resolve(_, _)
(* The directory stack a client is in after walking the segments: empty    *)
(* and "." segments stay, ".." goes up, and is kept when already at the    *)
(* top.                                                                    *)
Resolve(segments, stack) ==
    IF segments = <<>> THEN stack
    ELSE LET seg == Head(segments)
         IN  IF seg = <<>> \/ seg = <<".">> THEN Resolve(Tail(segments), stack)
             ELSE IF seg = <<".", ".">> /\ stack # <<>> /\ stack[Len(stack)] # <<".", ".">>
                  THEN Resolve(Tail(segments), SubSeq(stack, 1, Len(stack) - 1))
             ELSE Resolve(Tail(segments), Append(stack, seg))

(* The URL path lies in the directory root_dir or below it. *)
InsideBase(url_path, root_dir) ==
    LET base == Resolve(Split(root_dir), <<>>)
        full == Resolve(Split(url_path), <<>>)
    IN  /\ Len(base) <= Len(full)
        /\ SubSeq(full, 1, Len(base)) = base

(* C10: the addition planner rejects every manifest entry whose path      *)
(* would take the fetch URL out of the directory of the feed URL (a path   *)
(* with ".."): no emitted item has a fetch URL whose path lies outside     *)
(* that directory.                                                         *)
C10_NoEscapingAddition ==
    \A i \in DOMAIN ba.emitted :
        InsideBase(urlparse(ba.emitted[i].url).path,
                   dirname(urlparse(ba.feed_url).path))

----------------------------------------------------------------------------
(* Properties of synchronize, checked under Spec.                          *)

(* The invocation has reported a failure: it raised, or the apply engine   *)
(* reported a failed item to it.                                           *)
HasFailure(s) == sync[s].error # "none" \/ sync[s].failed # {}

(* C2: after a sync commits, the content of the committed version is       *)
(* (base version keys - removals) + additions, and, the delta being        *)
(* computed in mirror mode, exactly the key set of the remote manifest.    *)
C2_CommittedContent ==
    \A s \in Syncs :
        sync[s].pc = "done" =>
            /\ versions[sync[s].new_version] =
                  (fetch_content(sync[s].base_version) \ sync[s].delta.removals)
                      \cup sync[s].delta.additions
            /\ DefaultMirror =>
                  versions[sync[s].new_version] = remote_content(sync[s].manifest)

(* C3: once a sync has had a failure (an apply failure on its last item    *)
(* included), and no other sync has sealed a version since it read its     *)
(* base version, the latest version is that base version.                  *)
C3_FailedSyncKeepsBase ==
    \A s \in Syncs :
        (/\ HasFailure(s)
         /\ \A t \in Syncs \ {s} :
               sync[t].version_state = "sealed"
                   => sync[t].new_version <= sync[s].base_version)
        => latest = sync[s].base_version

(* C4: a version is sealed only when the apply engine reported no failed   *)
(* item: a reported failure aborts the sync.                               *)
C4_SealedOnlyIfAllSucceeded ==
    \A s \in Syncs :
        sync[s].version_state = "sealed" => sync[s].failed = {}

(* C5 as claimed: a sync whose importer has no feed_url fails before any   *)
(* I/O, a storage read included, and creates no version.                   *)
C5_AsClaimed ==
    \A s \in Syncs :
        sync[s].error = "ValueError" =>
            /\ sync[s].io = {}
            /\ sync[s].version_state = "none"

(* C5 amended: a sync whose importer has no feed_url fails with the        *)
(* configuration error having done nothing but the storage reads of the    *)
(* importer, the repository and the latest version: no working directory,  *)
(* no download, and no version, provisional or sealed.                     *)
C5_ConfigErrorBeforeWork ==
    \A s \in Syncs :
        /\ (sync[s].pc # "start" /\ sync[s].feed_url = <<>>)
              => (sync[s].pc = "failed" /\ sync[s].error = "ValueError")
        /\ sync[s].error = "ValueError" =>
              /\ sync[s].io = {"storage_read"}
              /\ sync[s].version_state = "none"
              /\ sync[s].new_version = 0
              /\ latest >= sync[s].base_version

C5_Witness ==
    \E s \in Syncs :
        /\ sync[s].pc = "failed"
        /\ sync[s].error = "ValueError"
        /\ sync[s].feed_url = <<>>

(* C6: the base version a sync reads its snapshot from is the immediate    *)
(* predecessor of the version the sync creates.                            *)
C6_BaseIsPredecessor ==
    \A s \in Syncs :
        sync[s].version_state # "none" =>
            sync[s].base_version = sync[s].new_version - 1

(* C8: of two syncs that commit one right after the other against the      *)
(* same manifest, the second computes an empty delta and its version has   *)
(* the content of the first's.                                             *)
C8_SecondSyncIsNoOp ==
    \A s1 \in Syncs, s2 \in Syncs :
        (/\ s1 # s2
         /\ sync[s1].pc = "done"
         /\ sync[s2].pc = "done"
         /\ sync[s2].base_version = sync[s1].new_version
         /\ sync[s2].new_version = sync[s1].new_version + 1
         /\ sync[s2].manifest = sync[s1].manifest)
        => /\ sync[s2].delta = Delta({}, {})
           /\ versions[sync[s2].new_version] = versions[sync[s1].new_version]

C12_FirstSync ==
    \A s \in Syncs :
        (sync[s].pc # "start" /\ sync[s].base_version = 0) =>
            /\ sync[s].error # "fetch_content"
            /\ sync[s].pc \in {"find_delta", "build", "apply", "done"} =>
                  sync[s].content = {}
            /\ sync[s].pc \in {"build", "apply", "done"} =>
                  /\ sync[s].delta.additions = remote_content(sync[s].manifest)
                  /\ sync[s].delta.removals = {}
            /\ sync[s].pc \in {"apply", "done"} =>
                  /\ sync[s].rem_todo = {}
                  /\ sync[s].rem_batch = {}
            /\ \A report \in sync[s].failed : report.action # "REMOVED"
            /\ (/\ sync[s].pc = "apply"
                /\ NextAddition(sync[s].manifest, sync[s].delta.additions,
                                sync[s].add_pos) = 0) => ENABLED Commit(s)

(* The first sync of an empty repository has committed version 1 with the  *)
(* keys of a manifest that is not empty.                                   *)
C12_Witness ==
    \E s \in Syncs :
        /\ sync[s].pc = "done"
        /\ sync[s].base_version = 0
        /\ sync[s].new_version = 1
        /\ sync[s].delta.additions # {}
        /\ sync[s].failed = {}
        /\ versions[1] = remote_content(sync[s].manifest)

----------------------------------------------------------------------------
(* Further properties of build_additions, checked under SpecAdditions.     *)

(* A sequence without its last element. *)
Front(seq) == SubSeq(seq, 1, Len(seq) - 1)

(* C13: the fetch URL of every addition has the scheme, host and query of  *)
(* the feed URL, and its path is the path of the feed URL with the last    *)
(* segment replaced by the segments of the entry's relative path; the      *)
(* entry s/a under http://n/r/M is fetched from http://n/r/s/a.            *)
C13_FetchUrl ==
    \A i \in DOMAIN ba.emitted :
        LET item == ba.emitted[i]
            feed == urlparse(ba.feed_url)
            got  == urlparse(item.url)
        IN  /\ got.scheme = feed.scheme
            /\ got.netloc = feed.netloc
            /\ got.query = feed.query
            /\ Split(got.path) = Front(Split(feed.path)) \o Split(item.relative_path)
            /\ (ba.feed_url = FeedUrl /\ item.relative_path = <<"s", "/", "a">>) =>
                  item.url = <<"h", "t", "t", "p", ":", "/", "/", "n", "/",
                               "r", "/", "s", "/", "a">>

(* The entry s/a has been emitted for the feed URL http://n/r/M?q, with    *)
(* the fetch URL http://n/r/s/a?q.                                         *)
C13_Witness ==
    \E i \in DOMAIN ba.emitted :
        /\ ba.emitted[i].relative_path = <<"s", "/", "a">>
        /\ ba.feed_url = FeedUrl \o <<"?", "q">>
        /\ ba.emitted[i].url = <<"h", "t", "t", "p", ":", "/", "/", "n", "/",
                                 "r", "/", "s", "/", "a", "?", "q">>

(* C14: iterated to its end, the addition planner has emitted exactly one  *)
(* item for every key of delta.additions, also when the manifest repeats a *)
(* record, so that the number of items emitted is the size it reported,    *)
(* len(delta.additions).                                                   *)
C14_OneItemPerAddition ==
    ba.pc = "stop" =>
        /\ Len(ba.emitted) = ba.size
        /\ \A key \in ba.delta.additions :
              Cardinality({i \in DOMAIN ba.emitted :
                              Key(ba.emitted[i].path, ba.emitted[i].digest) = key}) = 1

----------------------------------------------------------------------------
(* Properties of build_removals, checked under SpecRemovals.               *)

(* The records one lookup of all the removal keys at once would return. *)
UnbatchedLookup ==
    {file \in VersionContent(br.base_version) :
        Key(file.path, file.digest) \in br.delta.removals}

(* C15: whatever the size of the removal set, the records the removal      *)
(* planner yields batch by batch are those of one lookup of all the keys:  *)
(* no record outside it is ever yielded, none is yielded twice, and none   *)
(* is missing when the planner is exhausted.                               *)
C15_BatchedIsUnbatched ==
    br.pc \in {"iterate", "stop"} =>
        /\ br.yielded \subseteq UnbatchedLookup
        /\ br.count = Cardinality(br.yielded)
        /\ br.pc = "stop" => br.yielded = UnbatchedLookup

(* The planner is exhausted after a removal set of BatchSize + 1 keys,     *)
(* looked up in two batches, against a base version that keeps a record.   *)
C15_Witness ==
    /\ br.pc = "stop"
    /\ Cardinality(br.delta.removals) = BatchSize + 1
    /\ br.count = BatchSize + 1
    /\ VersionContent(br.base_version) # br.yielded

----------------------------------------------------------------------------
(* Further properties of synchronize, checked under Spec.                  *)

(* C16 as claimed: a sync whose manifest download failed never had a       *)
(* repository version, provisional or sealed.                              *)
C16_AsClaimed ==
    \A s \in Syncs :
        sync[s].error = "fetch_manifest" => "version_created" \notin sync[s].io

(* C16: a sync whose manifest download failed has aborted; the provisional *)
(* version it created before the download is discarded, it has sealed no   *)
(* version, and the number that version had is free for another sync.      *)
C16_DownloadFailureDiscards ==
    \A s \in Syncs :
        sync[s].error = "fetch_manifest" =>
            /\ sync[s].pc = "failed"
            /\ "version_created" \in sync[s].io
            /\ "download" \notin sync[s].io
            /\ sync[s].version_state = "discarded"
            /\ sync[s].new_version <= Len(versions) =>
                  \E t \in Syncs \ {s} :
                      /\ sync[t].pc = "done"
                      /\ sync[t].new_version = sync[s].new_version

(* The download of a sync against a base version has failed and the latest *)
(* version is still that base version.                                     *)
C16_Witness ==
    \E s \in Syncs :
        /\ sync[s].error = "fetch_manifest"
        /\ sync[s].base_version = 1
        /\ sync[s].new_version = 2
        /\ latest = 1

(* The place of a call in the order of synchronize. *)
Rank(pc) ==
    CASE pc = "start" -> 0
      [] pc = "create" -> 1
      [] pc = "fetch_manifest" -> 2
      [] pc = "fetch_content" -> 3
      [] pc = "find_delta" -> 4
      [] pc = "build" -> 5
      [] pc = "apply" -> 6
      [] pc = "done" -> 7
      [] pc = "failed" -> 8

(* C17: a sync moves from each phase to the next one only, or aborts:      *)
(* manifest fetched, snapshot read, delta computed, plans built, applied,  *)
(* committed, none twice and none backwards; the snapshot is read and the  *)
(* delta computed only after the download has succeeded, and an item is    *)
(* applied only when the delta of that manifest and snapshot exists.       *)
C17_PhaseOrder ==
    [][\A s \in Syncs :
          /\ sync'[s].pc # sync[s].pc =>
                /\ sync[s].pc \notin {"done", "failed"}
                /\ \/ sync'[s].pc = "failed"
                   \/ Rank(sync'[s].pc) = Rank(sync[s].pc) + 1
          /\ (sync[s].pc \in {"fetch_content", "find_delta"} /\ sync'[s] # sync[s]) =>
                "download" \in sync[s].io
          /\ (sync'[s].add_pos # sync[s].add_pos \/ sync'[s].failed # sync[s].failed
                 \/ (sync[s].pc = "apply" /\ sync'[s].pc \in {"apply", "done"}
                        /\ sync'[s] # sync[s])) =>
                /\ sync[s].pc = "apply"
                /\ "download" \in sync[s].io
                /\ sync[s].content = fetch_content(sync[s].base_version)
                /\ sync[s].delta = find_delta(sync[s].manifest, sync[s].content,
                                              DefaultMirror)]_vars

(* A sync has gone through every phase with an addition and a removal. *)
C17_Witness ==
    \E s \in Syncs :
        /\ sync[s].pc = "done"
        /\ sync[s].delta.additions # {}
        /\ sync[s].delta.removals # {}
        /\ sync[s].failed = {}

(* The sync has reached one of its two outcomes. *)
Terminal(s) == sync[s].pc \in {"done", "failed"}

C19_SealedVersionsUnchanged ==
    [][/\ Len(versions') >= Len(versions)
       /\ \A v \in 1..Len(versions) : versions'[v] = versions[v]
       /\ \A s \in Syncs :
             sync[s].pc \in InBlock =>
                 /\ sync[s].base_version < sync[s].new_version
                 /\ sync[s].new_version = Len(versions) + 1]_vars

(* A sync has committed a version without a key that it removed, and its   *)
(* base version still has that key.                                        *)
C19_Witness ==
    \E s \in Syncs :
        /\ sync[s].pc = "done"
        /\ sync[s].base_version >= 1
        /\ \E key \in sync[s].delta.removals :
              /\ key \notin versions[sync[s].new_version]
              /\ key \in versions[sync[s].base_version]

====
